---- MODULE Spec2Model ----
(***************************************************************************)
(* Model of the pymodbus_soc scripts: the Modicon address parser and the   *)
(* command-line reader of generic_modbus_reader.py, the register decoder   *)
(* and the retrying holding-register read of soc_victron_0.2.py, and the   *)
(* connect/read/close sequences of solis_modbus.py and soc_foxess_0.1.py.  *)
(*                                                                         *)
(* One run of one script is one behaviour: Init picks the script and its   *)
(* command-line arguments, the actions are the script's steps, and the     *)
(* Modbus transport (pymodbus) is the environment: connect() succeeds or   *)
(* fails, a read returns registers, returns an exception response          *)
(* (isError()) or raises.  trace is the history of transport calls and     *)
(* sleeps in the order the script made them.                               *)
(***************************************************************************)
EXTENDS Integers, Sequences, FiniteSets, TLC

\* ------------------------------------------------------------------ bounds
\* largest --count tried
MaxCount == 2
\* largest retries argument of read_holding tried
MaxRetries == 3

\* longest register list handed to decode_registers on its own
MaxWords == 4

\* ------------------------------------------------------- input domains
\* 16-bit register words the device may return.  Both bytes of each word
\* are below 0x80 so that a 32-bit composition stays inside TLC's integers;
\* 258 = 0x0102 has two different bytes.
Words == {1, 2, 258}

\* register words handed to decode_registers and convert_32bit_value on
\* their own: 0, an asymmetric word and the largest word whose 32-bit
\* composition stays inside TLC's integers (0x7FFF)
CodecWords == {0, 1, 2, 258, 32767}

\* --register values: the first and last address of each range, their
\* neighbours, the gaps between the ranges and non-positive values.
RefInputs ==
  {-1, 0, 1, 9000, 9999, 10000, 10001, 10002, 19999, 20000, 20001, 29999,
   30000, 30001, 39999, 40000, 40001, 40002, 49999, 50000}

\* --type choices of generic_modbus_reader.py
RegisterTypes == {"coils", "discrete_inputs", "holding_registers", "input_registers"}

\* --bit-length choices of generic_modbus_reader.py
BitLengths == {16, 32}

\* --scale values tried (a float argument; whole factors are tried)
Scales == {1, 10}

\* --unit values tried: 0 is rejected, 1 is the default
Units == {0, 1}

\* --dtype values tried: the 16- and 32-bit integer types, one 64-bit type
\* and one tag that is not in format_map
DTypes == {"u16", "s16", "u32", "s32", "u64", "x8"}

Orders == {"big", "little"}

\* the register dictionary of solis_modbus.py, in iteration order
SolisRegisters == <<33143, 33144, 33093>>

\* ------------------------------------------------ generic_modbus_reader.py

\* convert_32bit_value with the low register shifted instead of the high one
convert_32bit_value_low_first(high_reg, low_reg) == low_reg * 65536 + high_reg

\* (high_reg << 16) | low_reg; both are 16-bit words, so the low 16 bits of
\* the shifted high word are zero and the bitwise or is a sum
convert_32bit_value(high_reg, low_reg) == high_reg * 65536 + low_reg

NoAddress == [ok |-> FALSE, num |-> 0, type |-> "none"]

\* parse_register_address with the holding range opened one address early
parse_register_address_from_40000(reg_num) ==
  IF 40000 <= reg_num /\ reg_num <= 49999
    THEN [ok |-> TRUE, num |-> reg_num - 40000, type |-> "holding_registers"]
  ELSE IF 30001 <= reg_num /\ reg_num <= 39999
    THEN [ok |-> TRUE, num |-> reg_num - 30000, type |-> "input_registers"]
  ELSE IF 10001 <= reg_num /\ reg_num <= 19999
    THEN [ok |-> TRUE, num |-> reg_num - 10000, type |-> "coils"]
  ELSE IF 20001 <= reg_num /\ reg_num <= 29999
    THEN [ok |-> TRUE, num |-> reg_num - 20000, type |-> "discrete_inputs"]
  ELSE NoAddress

\* parse_register_address: the (register number, register type) pair, or
\* ok = FALSE where the code raises ValueError
parse_register_address(reg_num) ==
  IF 40001 <= reg_num /\ reg_num <= 49999
    THEN [ok |-> TRUE, num |-> reg_num - 40000, type |-> "holding_registers"]
  ELSE IF 30001 <= reg_num /\ reg_num <= 39999
    THEN [ok |-> TRUE, num |-> reg_num - 30000, type |-> "input_registers"]
  ELSE IF 10001 <= reg_num /\ reg_num <= 19999
    THEN [ok |-> TRUE, num |-> reg_num - 10000, type |-> "coils"]
  ELSE IF 20001 <= reg_num /\ reg_num <= 29999
    THEN [ok |-> TRUE, num |-> reg_num - 20000, type |-> "discrete_inputs"]
  ELSE NoAddress

\* actual_count without the doubling of the 32-bit mode
actual_count_not_doubled(count, bit_length) == count

\* "Adjust count based on bit length"
actual_count(count, bit_length) ==
  IF bit_length = 32 THEN count * 2 ELSE count

\* ---------------------------------------------------- soc_victron_0.2.py

Reverse(s) == [i \in 1..Len(s) |-> s[Len(s) + 1 - i]]

\* endian_char = '>' if byteorder == 'big' else '<'
endian_char(byteorder) == IF byteorder = "big" THEN ">" ELSE "<"

\* struct.pack(f'{endian_char}H', reg): the two bytes of one register
pack_H(endian, reg) ==
  IF endian = ">" THEN <<reg \div 256, reg % 256>>
                  ELSE <<reg % 256, reg \div 256>>

\* byte_data after the loop over regs
RECURSIVE byte_data(_, _)
byte_data(endian, regs) ==
  IF regs = <<>> THEN <<>>
  ELSE pack_H(endian, Head(regs)) \o byte_data(endian, Tail(regs))

\* format_map: the struct format of each dtype as (size in bytes, signed)
format_map ==
  [u16 |-> [size |-> 2, signed |-> FALSE], s16 |-> [size |-> 2, signed |-> TRUE],
   u32 |-> [size |-> 4, signed |-> FALSE], s32 |-> [size |-> 4, signed |-> TRUE],
   u64 |-> [size |-> 8, signed |-> FALSE], s64 |-> [size |-> 8, signed |-> TRUE]]

\* struct.unpack(format_str, bytes)[0] for the integer formats.  The format
\* carries the same endian_char that packed the registers: '>' reads the
\* first byte as the most significant, '<' the last.  The number is kept as
\* its bytes, most significant first, with the format's signedness, which
\* holds 64-bit values that TLC's integers cannot.
unpack(endian, signed, bytes) ==
  [signed |-> signed, msb |-> IF endian = ">" THEN bytes ELSE Reverse(bytes)]

\* the unsigned number whose bytes, most significant first, are bytes
RECURSIVE BigEndianValue(_)
BigEndianValue(bytes) ==
  IF bytes = <<>> THEN 0
  ELSE BigEndianValue(SubSeq(bytes, 1, Len(bytes) - 1)) * 256 + bytes[Len(bytes)]

\* 256^n
RECURSIVE Pow256(_)
Pow256(n) == IF n = 0 THEN 1 ELSE 256 * Pow256(n - 1)

\* the integer an unpacked value of at most four bytes stands for
NumberOf(val) ==
  IF val.signed /\ val.msb[1] >= 128
    THEN BigEndianValue(val.msb) - Pow256(Len(val.msb))
    ELSE BigEndianValue(val.msb)

NoValue == [signed |-> FALSE, msb |-> <<>>]

\* decode_registers that keeps only the words the dtype needs before it
\* applies the word order
decode_registers_trimmed(regs_in, dtype, byteorder, wordorder) ==
  IF regs_in = <<>> THEN [kind |-> "none", v |-> NoValue]
  ELSE IF dtype \notin DOMAIN format_map THEN [kind |-> "error", v |-> NoValue]
  ELSE IF 2 * Len(regs_in) < format_map[dtype].size THEN [kind |-> "error", v |-> NoValue]
  ELSE
    LET needed  == SubSeq(regs_in, 1, format_map[dtype].size \div 2)
        ordered == IF wordorder = "little" THEN Reverse(needed) ELSE needed
        endian  == endian_char(byteorder)
    IN  [kind |-> "value",
         v |-> unpack(endian, format_map[dtype].signed, byte_data(endian, ordered))]

\* decode_registers: kind "none" is the None returned for an empty list,
\* kind "error" a raised ValueError, kind "value" the decoded number v
decode_registers(regs_in, dtype, byteorder, wordorder) ==
  IF regs_in = <<>> THEN [kind |-> "none", v |-> NoValue]
  ELSE
    LET ordered == IF wordorder = "little" THEN Reverse(regs_in) ELSE regs_in
        endian  == endian_char(byteorder)
        data    == byte_data(endian, ordered)
    IN  IF dtype \notin DOMAIN format_map THEN [kind |-> "error", v |-> NoValue]
        ELSE IF Len(data) < format_map[dtype].size THEN [kind |-> "error", v |-> NoValue]
        ELSE [kind |-> "value",
              v |-> unpack(endian, format_map[dtype].signed,
                           SubSeq(data, 1, format_map[dtype].size))]

\* the retry loop as range(retries)
attempts_one_short(retries) == retries

\* range(retries + 1): the number of iterations of the retry loop
attempts(retries) == retries + 1

\* a sleep after the last failed attempt as well
sleeps_after_every_failure(attempt, retries) == attempt <= retries

\* "if attempt < retries: time.sleep(retry_sleep) else: break"
sleeps_after(attempt, retries) == attempt < retries


\* ------------------------------------------------------------ the transport

\* what a successful read hands back as result.registers: one word per
\* requested register from the register spaces; the bit spaces answer with
\* bits, and result.registers is the empty list
response_registers(space, n) ==
  IF space \in {"coils", "discrete_inputs"} THEN {<<>>} ELSE [1..n -> Words]

\* one entry of the history of transport calls and sleeps
Ev(op, space, address, count, res, data) ==
  [op |-> op, space |-> space, address |-> address, count |-> count,
   res |-> res, data |-> data]

Connect(ok) == Ev("connect", "-", 0, 0, IF ok THEN "ok" ELSE "fail", <<>>)

Close == Ev("close", "-", 0, 0, "-", <<>>)

Sleep == Ev("sleep", "-", 0, 0, "-", <<>>)

\* a read that failed: res "exception" when the call raised, "error" when it
\* returned an exception response (isError())
ReadFailures == {"exception", "error"}

\* one printed result line: i is the register index it is about
Line(kind, i, x) == [kind |-> kind, i |-> i, x |-> x]

\* ------------------------------------------------ display of the generic reader

\* "for i, value in enumerate(result.registers)": the raw and the scaled
\* line of every register
RECURSIVE each_register(_, _, _)
each_register(registers, i, scale) ==
  IF i >= Len(registers) THEN <<>>
  ELSE <<Line("value", i, registers[i + 1]),
         Line("scaled", i, registers[i + 1] * scale)>>
       \o each_register(registers, i + 1, scale)

\* the 16-bit branch.  With count = 1 the single register is printed and
\* then the loop runs as well (it is not inside the else); result.registers[0]
\* raises IndexError on an empty list.  With any other count the header line
\* adds the string args.register to an integer and raises TypeError.
display_16(count, registers, scale) ==
  IF count = 1
    THEN IF registers = <<>>
           THEN [raised |-> TRUE, out |-> <<>>]
           ELSE [raised |-> FALSE,
                 out |-> <<Line("value", 0, registers[1]),
                           Line("scaled", 0, registers[1] * scale)>>
                         \o each_register(registers, 0, scale)]
    ELSE [raised |-> TRUE, out |-> <<>>]

\* "for i in range(0, len(result.registers), 2): if i + 1 < len(...)"
RECURSIVE each_pair(_, _)
each_pair(registers, i) ==
  IF i >= Len(registers) THEN <<>>
  ELSE (IF i + 1 < Len(registers)
          THEN <<Line("value32", i, convert_32bit_value(registers[i + 1], registers[i + 2])),
                 Line("raw", i, registers[i + 1]),
                 Line("raw", i + 1, registers[i + 2])>>
          ELSE <<>>)
       \o each_pair(registers, i + 2)

\* the 32-bit branch: args.scale is not used in it
display_32(count, registers) ==
  IF count = 1
    THEN IF Len(registers) >= 2
           THEN [raised |-> FALSE,
                 out |-> <<Line("value32", 0, convert_32bit_value(registers[1], registers[2])),
                           Line("raw", 0, registers[1]),
                           Line("raw", 1, registers[2])>>]
           ELSE [raised |-> FALSE, out |-> <<Line("need2", 0, Len(registers))>>]
    ELSE [raised |-> FALSE, out |-> each_pair(registers, 0)]

display(bit_length, count, registers, scale) ==
  IF bit_length = 32 THEN display_32(count, registers)
                     ELSE display_16(count, registers, scale)

\* "Display results" of the older copy: the single register, or the header
\* line that adds the string args.register to an integer
display_copy(count, registers) ==
  IF count = 1 /\ registers # <<>>
    THEN [raised |-> FALSE, out |-> <<Line("value", 0, registers[1])>>]
    ELSE [raised |-> TRUE, out |-> <<>>]

\* -------------------------------------------------------------------- state

VARIABLES
  script,         \* which script runs
  args,           \* its command-line arguments
  pc,             \* the position of the run
  register_num,   \* generic: the parsed register number
  register_type,  \* generic: the parsed register type
  actual,         \* generic: actual_count
  attempt,        \* victron: the loop variable of read_holding
  last_exc,       \* victron: last_exc of read_holding
  regs,           \* the registers of the last successful read
  value,          \* victron: the decoded value, kind "none" for None
  out,            \* the result lines printed
  err,            \* the error reported, "none" when there is none
  exit,           \* the exit code, -1 while the script runs
  trace,          \* history of transport calls and sleeps
  idx             \* solis: position in the register dictionary

vars == <<script, args, pc, register_num, register_type, actual, attempt,
          last_exc, regs, value, out, err, exit, trace, idx>>

\* one argument vector; a script that lacks an argument carries a fixed value
Arguments(reg, cnt, unit, type, bits, scale, dtype, border, worder, retries) ==
  [register |-> reg, count |-> cnt, unit |-> unit, type |-> type,
   bit_length |-> bits, scale |-> scale, dtype |-> dtype,
   byteorder |-> border, wordorder |-> worder, retries |-> retries]

\* the argument vectors of generic_modbus_reader.py
GenericArgs ==
  {Arguments(r, c, u, t, b, s, "u16", "big", "big", 0) :
     r \in RefInputs, c \in -1..MaxCount, u \in Units, t \in RegisterTypes,
     b \in BitLengths, s \in Scales}

\* the argument vectors of the older copy of the reader
GenericCopyArgs ==
  {Arguments(r, c, u, t, 16, 1, "u16", "big", "big", 0) :
     r \in RefInputs, c \in -1..MaxCount, u \in Units, t \in RegisterTypes}

\* the argument vectors of soc_victron_0.2.py; retries is the parameter of
\* read_holding (main leaves it at its default, 2) and is tried from 0 up,
\* count from 1 up: a read of no registers is not tried
VictronArgs ==
  {Arguments(3, c, 100, "holding_registers", 16, 1, d, bo, wo, n) :
     c \in 1..MaxCount, d \in DTypes, bo \in Orders, wo \in Orders,
     n \in 0..MaxRetries}

\* soc_foxess_0.1.py takes no arguments: read_soc, read_model and read_serial
\* each create a client of their own and read one fixed block of holding
\* registers, and one call of one of them is one behaviour
FoxessArgs ==
  {Arguments(a[1], a[2], 1, "holding_registers", 16, 1, "u16", "big", "big", 0) :
     a \in {<<37612, 1>>, <<30000, 2>>, <<30016, 2>>}}

\* solis_modbus.py takes no arguments
SolisArgs ==
  {Arguments(0, 1, 1, "input_registers", 16, 1, "u16", "big", "big", 0)}

Init ==
  /\ script \in {"generic", "generic_copy", "victron", "solis", "foxess"}
  /\ args \in (CASE script = "generic" -> GenericArgs
                 [] script = "generic_copy" -> GenericCopyArgs
                 [] script = "victron" -> VictronArgs
                 [] script = "foxess" -> FoxessArgs
                 [] OTHER -> SolisArgs)
  /\ pc = "start"
  /\ register_num = 0
  /\ register_type = "none"
  /\ actual = 0
  /\ attempt = 0
  /\ last_exc = "none"
  /\ regs = <<>>
  /\ value = [kind |-> "none", v |-> NoValue]
  /\ out = <<>>
  /\ err = "none"
  /\ exit = -1
  /\ trace = <<>>
  /\ idx = 1

\* sys.exit(code) or an uncaught exception outside every try/finally
Exit(code, what) ==
  /\ pc' = "done"
  /\ exit' = code
  /\ err' = what

\* sys.exit(code) or an exception inside a try whose finally closes the client
ExitThroughFinally(code, what) ==
  /\ pc' = "finally"
  /\ exit' = code
  /\ err' = what


\* ------------------------------------------------ generic_modbus_reader.py

\* the reader and its older copy under src/Dropbox, which has no
\* --bit-length and no --scale and is otherwise the same script
GenericScripts == {"generic", "generic_copy"}

\* the read method main calls: the if/elif chain tests args.type, the --type
\* argument, and not the register type that parse_register_address returned
read_operation(type_arg, parsed_type) == type_arg

\* "Parse register address" and "Adjust count based on bit length"
GParse ==
  /\ script \in GenericScripts /\ pc = "start"
  /\ LET parsed == parse_register_address(args.register)
     IN  IF parsed.ok
           THEN /\ register_num' = parsed.num
                /\ register_type' = parsed.type
                /\ actual' = IF script = "generic"
                             THEN actual_count(args.count, args.bit_length)
                             ELSE args.count
                /\ pc' = "validate"
                /\ UNCHANGED <<exit, err>>
           ELSE /\ Exit(1, "parse")
                /\ UNCHANGED <<register_num, register_type, actual>>
  /\ UNCHANGED <<script, args, attempt, last_exc, regs, value, out, trace, idx>>

\* count validation that lets a count of zero through
count_rejected_below_zero(count) == count < 0

\* "if args.count < 1"
count_rejected(count) == count < 1

\* "Validate count", "Validate unit ID", "Create Modbus client"
GValidate ==
  /\ script \in GenericScripts /\ pc = "validate"
  /\ IF count_rejected(args.count) THEN Exit(1, "count")
     ELSE IF args.unit < 1 \/ args.unit > 255 THEN Exit(1, "unit")
     ELSE pc' = "connect" /\ UNCHANGED <<exit, err>>
  /\ UNCHANGED <<script, args, register_num, register_type, actual, attempt,
                 last_exc, regs, value, out, trace, idx>>

\* "if not client.connect(): ... sys.exit(1)", inside the try
GConnect ==
  /\ script \in GenericScripts /\ pc = "connect"
  /\ \E ok \in BOOLEAN :
       /\ trace' = Append(trace, Connect(ok))
       /\ IF ok THEN pc' = "read" /\ UNCHANGED <<exit, err>>
                ELSE ExitThroughFinally(1, "connect")
  /\ UNCHANGED <<script, args, register_num, register_type, actual, attempt,
                 last_exc, regs, value, out, idx>>

\* "Read registers based on type" and "Check for errors": the call raises
\* ModbusException, returns an exception response, or returns registers
GRead ==
  /\ script \in GenericScripts /\ pc = "read"
  /\ LET space == read_operation(args.type, register_type)
     IN  \/ \E res \in ReadFailures :
              /\ trace' = Append(trace, Ev("read", space, register_num, actual, res, <<>>))
              /\ ExitThroughFinally(1, IF res = "error" THEN "modbus_error"
                                                        ELSE "modbus_exception")
              /\ UNCHANGED regs
         \/ \E r \in response_registers(space, actual) :
              /\ trace' = Append(trace, Ev("read", space, register_num, actual, "ok", r))
              /\ regs' = r
              /\ pc' = "display"
              /\ UNCHANGED <<exit, err>>
  /\ UNCHANGED <<script, args, register_num, register_type, actual, attempt,
                 last_exc, value, out, idx>>

\* "Display results"; an exception in it is caught by "except Exception"
GDisplay ==
  /\ script \in GenericScripts /\ pc = "display"
  /\ LET shown == IF script = "generic"
                    THEN display(args.bit_length, args.count, regs, args.scale)
                    ELSE display_copy(args.count, regs)
     IN  IF shown.raised
           THEN ExitThroughFinally(1, "unexpected") /\ UNCHANGED out
           ELSE /\ out' = shown.out
                /\ ExitThroughFinally(0, "none")
  /\ UNCHANGED <<script, args, register_num, register_type, actual, attempt,
                 last_exc, regs, value, trace, idx>>

\* "finally: client.close()"
GClose ==
  /\ script \in GenericScripts /\ pc = "finally"
  /\ trace' = Append(trace, Close)
  /\ pc' = "done"
  /\ UNCHANGED <<script, args, register_num, register_type, actual, attempt,
                 last_exc, regs, value, out, err, exit, idx>>

\* ---------------------------------------------------- soc_victron_0.2.py

\* "if not client.connect(): ... sys.exit(2)", before the try
VConnect ==
  /\ script = "victron" /\ pc = "start"
  /\ \E ok \in BOOLEAN :
       /\ trace' = Append(trace, Connect(ok))
       /\ IF ok
            THEN /\ pc' = IF 0 < attempts(args.retries) THEN "attempt" ELSE "raise"
                 /\ UNCHANGED <<exit, err>>
            ELSE Exit(2, "connect")
  /\ UNCHANGED <<script, args, register_num, register_type, actual, attempt,
                 last_exc, regs, value, out, idx>>

\* one iteration of the loop of read_holding up to the sleep: the call
\* returns registers, or it raises or returns an exception response, which
\* the try turns into an exception as well
VAttempt ==
  /\ script = "victron" /\ pc = "attempt"
  /\ \/ \E r \in response_registers("holding_registers", args.count) :
          /\ trace' = Append(trace, Ev("read", "holding_registers", args.register,
                                       args.count, "ok", r))
          /\ regs' = r
          /\ pc' = "decode"
          /\ UNCHANGED last_exc
     \/ \E res \in ReadFailures :
          /\ trace' = Append(trace, Ev("read", "holding_registers", args.register,
                                       args.count, res, <<>>))
          /\ last_exc' = res
          /\ pc' = IF sleeps_after(attempt, args.retries) THEN "sleep" ELSE "raise"
          /\ UNCHANGED regs
  /\ UNCHANGED <<script, args, register_num, register_type, actual, attempt,
                 value, out, err, exit, idx>>

\* time.sleep(retry_sleep) and the step of the loop to the next attempt
VSleep ==
  /\ script = "victron" /\ pc = "sleep"
  /\ trace' = Append(trace, Sleep)
  /\ attempt' = attempt + 1
  /\ pc' = IF attempt + 1 < attempts(args.retries) THEN "attempt" ELSE "raise"
  /\ UNCHANGED <<script, args, register_num, register_type, actual,
                 last_exc, regs, value, out, err, exit, idx>>

\* "raise last_exc if last_exc else RuntimeError(...)", caught by main's
\* "except Exception": sys.exit(1)
VRaise ==
  /\ script = "victron" /\ pc = "raise"
  /\ ExitThroughFinally(1, IF last_exc = "none" THEN "unknown" ELSE last_exc)
  /\ UNCHANGED <<script, args, register_num, register_type, actual, attempt,
                 last_exc, regs, value, out, trace, idx>>

\* "Optional decode" and "Pretty print": a decode that raises gives None
VDecode ==
  /\ script = "victron" /\ pc = "decode"
  /\ LET decoded == decode_registers(regs, args.dtype, args.byteorder, args.wordorder)
     IN  /\ value' = IF decoded.kind = "value" THEN decoded
                     ELSE [kind |-> "none", v |-> NoValue]
         /\ out' = [i \in 1..Len(regs) |-> Line("raw", i - 1, regs[i])]
  /\ ExitThroughFinally(0, "none")
  /\ UNCHANGED <<script, args, register_num, register_type, actual, attempt,
                 last_exc, regs, trace, idx>>

\* "finally: client.close()"
VClose ==
  /\ script = "victron" /\ pc = "finally"
  /\ trace' = Append(trace, Close)
  /\ pc' = "done"
  /\ UNCHANGED <<script, args, register_num, register_type, actual, attempt,
                 last_exc, regs, value, out, err, exit, idx>>

\* ------------------------------------------------------- solis_modbus.py

\* the connect of solis_modbus.py without the test of its result
SConnect_unchecked ==
  /\ script = "solis" /\ pc = "start"
  /\ \E ok \in BOOLEAN : trace' = Append(trace, Connect(ok))
  /\ pc' = "loop"
  /\ UNCHANGED <<script, args, register_num, register_type, actual, attempt,
                 last_exc, regs, value, out, err, exit, idx>>

\* "connected = client.connect(); if not connected: raise RuntimeError"
SConnect ==
  /\ script = "solis" /\ pc = "start"
  /\ \E ok \in BOOLEAN :
       /\ trace' = Append(trace, Connect(ok))
       /\ IF ok THEN pc' = "loop" /\ UNCHANGED <<exit, err>>
                ELSE Exit(1, "connect")
  /\ UNCHANGED <<script, args, register_num, register_type, actual, attempt,
                 last_exc, regs, value, out, idx>>

\* one iteration of "for name, register in registers.items()": read_register
\* and the print.  No try surrounds the call: an exception ends the script.
SReadRegister ==
  /\ script = "solis" /\ pc = "loop"
  /\ LET register == SolisRegisters[idx]
         next == IF idx = Len(SolisRegisters) THEN "close" ELSE "loop"
     IN  \/ /\ trace' = Append(trace, Ev("read", "input_registers", register, 1,
                                         "exception", <<>>))
            /\ Exit(1, "exception")
            /\ UNCHANGED <<regs, out, idx>>
         \/ /\ trace' = Append(trace, Ev("read", "input_registers", register, 1,
                                         "error", <<>>))
            /\ pc' = next
            /\ idx' = idx + 1
            /\ UNCHANGED <<regs, out, exit, err>>
         \/ \E r \in response_registers("input_registers", 1) :
              /\ trace' = Append(trace, Ev("read", "input_registers", register, 1,
                                           "ok", r))
              /\ regs' = r
              /\ out' = Append(out, Line("value", idx - 1, r[1]))
              /\ pc' = next
              /\ idx' = idx + 1
              /\ UNCHANGED <<exit, err>>
  /\ UNCHANGED <<script, args, register_num, register_type, actual, attempt,
                 last_exc, value>>

\* "client.close()" at the end of the script
SClose ==
  /\ script = "solis" /\ pc = "close"
  /\ trace' = Append(trace, Close)
  /\ Exit(0, "none")
  /\ UNCHANGED <<script, args, register_num, register_type, actual, attempt,
                 last_exc, regs, value, out, idx>>

\* ---------------------------------------------------- soc_foxess_0.1.py

\* "if not client.connect(): ... return None", inside the try
FConnect ==
  /\ script = "foxess" /\ pc = "start"
  /\ \E ok \in BOOLEAN :
       /\ trace' = Append(trace, Connect(ok))
       /\ IF ok THEN pc' = "read" /\ UNCHANGED <<exit, err>>
                ELSE ExitThroughFinally(0, "connect")
  /\ UNCHANGED <<script, args, register_num, register_type, actual, attempt,
                 last_exc, regs, value, out, idx>>

\* the read of the block and the print of its registers; an exception is
\* caught by "except Exception" and an exception response is printed, and
\* both return None
FRead ==
  /\ script = "foxess" /\ pc = "read"
  /\ \/ \E res \in ReadFailures :
          /\ trace' = Append(trace, Ev("read", "holding_registers", args.register,
                                       args.count, res, <<>>))
          /\ ExitThroughFinally(0, IF res = "error" THEN "modbus_error"
                                                    ELSE "exception")
          /\ UNCHANGED <<regs, out>>
     \/ \E r \in response_registers("holding_registers", args.count) :
          /\ trace' = Append(trace, Ev("read", "holding_registers", args.register,
                                       args.count, "ok", r))
          /\ regs' = r
          /\ out' = [i \in 1..Len(r) |-> Line("value", i - 1, r[i])]
          /\ ExitThroughFinally(0, "none")
  /\ UNCHANGED <<script, args, register_num, register_type, actual, attempt,
                 last_exc, value, idx>>

\* "finally: client.close()"
FClose ==
  /\ script = "foxess" /\ pc = "finally"
  /\ trace' = Append(trace, Close)
  /\ pc' = "done"
  /\ UNCHANGED <<script, args, register_num, register_type, actual, attempt,
                 last_exc, regs, value, out, err, exit, idx>>

\* ------------------------------------------------------------ specification

Next ==
  \/ GParse \/ GValidate \/ GConnect \/ GRead \/ GDisplay \/ GClose
  \/ VConnect \/ VAttempt \/ VSleep \/ VRaise \/ VDecode \/ VClose
  \/ SConnect \/ SReadRegister \/ SClose
  \/ FConnect \/ FRead \/ FClose

Spec == Init /\ [][Next]_vars


\* ------------------------------------------- the two decoders on their own

\* decode_registers and convert_32bit_value are functions of their arguments
\* alone.  In CodecSpec one behaviour is one call of decode_registers on a
\* register list of any length up to MaxWords, followed by one call of
\* convert_32bit_value on the first two registers when there are two.

AllRegisterLists == UNION {[1..n -> CodecWords] : n \in 0..MaxWords}

CodecArgs ==
  {Arguments(0, 1, 1, "holding_registers", 16, 1, d, bo, wo, 0) :
     d \in DTypes \cup {"s64"}, bo \in Orders, wo \in Orders}

CodecInit ==
  /\ script = "codec"
  /\ args \in CodecArgs
  /\ regs \in AllRegisterLists
  /\ pc = "start"
  /\ register_num = 0
  /\ register_type = "none"
  /\ actual = 0
  /\ attempt = 0
  /\ last_exc = "none"
  /\ value = [kind |-> "none", v |-> NoValue]
  /\ out = <<>>
  /\ err = "none"
  /\ exit = -1
  /\ trace = <<>>
  /\ idx = 1

\* value = decode_registers(regs, dtype, byteorder, wordorder); a raised
\* ValueError is kept as kind "error"
CodecDecode ==
  /\ script = "codec" /\ pc = "start"
  /\ value' = decode_registers(regs, args.dtype, args.byteorder, args.wordorder)
  /\ pc' = "decoded"
  /\ UNCHANGED <<script, args, register_num, register_type, actual, attempt,
                 last_exc, regs, out, err, exit, trace, idx>>

\* value_32 = convert_32bit_value(registers[0], registers[1])
CodecCombine ==
  /\ script = "codec" /\ pc = "decoded" /\ Len(regs) >= 2
  /\ out' = <<Line("value32", 0, convert_32bit_value(regs[1], regs[2]))>>
  /\ pc' = "done"
  /\ UNCHANGED <<script, args, register_num, register_type, actual, attempt,
                 last_exc, regs, value, err, exit, trace, idx>>

CodecNext == CodecDecode \/ CodecCombine

CodecSpec == CodecInit /\ [][CodecNext]_vars

\* =================================================================== claims

\* the four supported ranges of logical references and their spaces
SupportedRanges ==
  {[first |-> 10001, last |-> 19999, space |-> "coils"],
   [first |-> 20001, last |-> 29999, space |-> "discrete_inputs"],
   [first |-> 30001, last |-> 39999, space |-> "input_registers"],
   [first |-> 40001, last |-> 49999, space |-> "holding_registers"]}

RangesOf(r) == {rg \in SupportedRanges : rg.first <= r /\ r <= rg.last}

\* the generic reader has parsed its --register argument
Parsed == script = "generic" /\ pc # "start"

IsRead(e) == e.op = "read"

IsSleep(e) == e.op = "sleep"

\* the reads and the sleeps of the run so far, in order
Reads == SelectSeq(trace, IsRead)

Sleeps == SelectSeq(trace, IsSleep)

\* C1: every reference inside a supported range resolves to the zero-based
\* offset "reference minus the first address of its range", in the matching
\* space, so that 40001 gives offset 0 and 49999 gives 9998 and every offset
\* lies in 0..9998; that offset is the address of every read.
C1_ZeroBasedOffset ==
  (Parsed /\ RangesOf(args.register) # {}) =>
    /\ \A rg \in RangesOf(args.register) :
         /\ register_num = args.register - rg.first
         /\ register_type = rg.space
    /\ register_num \in 0..9998
    /\ \A i \in DOMAIN trace : IsRead(trace[i]) => trace[i].address = register_num

\* C2: parse_register_address fails for every reference outside the four
\* ranges, with no register number or type, and succeeds with the space of
\* exactly one range for every reference inside one.
C2_OneRangeOrError ==
  Parsed =>
    /\ Cardinality(RangesOf(args.register)) <= 1
    /\ RangesOf(args.register) = {} =>
         /\ pc = "done" /\ err = "parse" /\ exit = 1
         /\ register_type = "none" /\ trace = <<>>
    /\ RangesOf(args.register) # {} =>
         /\ err # "parse"
         /\ \A rg \in RangesOf(args.register) : register_type = rg.space

\* C2 witness: the gap value 40000 has been rejected
C2_GapRejected ==
  /\ script = "generic" /\ pc = "done" /\ args.register = 40000
  /\ err = "parse" /\ exit = 1

\* C3: every read the generic reader issues is the read of the register
\* space its reference resolved to.
C3_ReadInResolvedSpace ==
  script = "generic" =>
    \A i \in DOMAIN trace : IsRead(trace[i]) => trace[i].space = register_type

\* C4: the words [0x0001, 0x0002] decode as u32 to 0x00010002 under (big,
\* big), 0x00020001 under (big, little), 0x01000200 under (little, big) and
\* 0x02000100 under (little, little), byteorder named first.
C4_FourOrdersFourValues ==
  (/\ script = "victron" /\ pc \in {"finally", "done"} /\ exit = 0
   /\ regs = <<1, 2>> /\ args.dtype = "u32") =>
    /\ value.kind = "value"
    /\ NumberOf(value.v) =
         (CASE args.byteorder = "big" /\ args.wordorder = "big" -> 65538
            [] args.byteorder = "big" /\ args.wordorder = "little" -> 131073
            [] args.byteorder = "little" /\ args.wordorder = "big" -> 16777728
            [] OTHER -> 33554688)

\* C5: when the first read of read_holding returns an exception response,
\* no second read and no sleep follows, whatever retries is.
C5_ProtocolFailureNotRetried ==
  (script = "victron" /\ Len(Reads) >= 1 /\ Reads[1].res = "error") =>
    Len(Reads) = 1 /\ Len(Sleeps) = 0

\* read_holding has returned registers / has raised
Returned == script = "victron" /\ (pc = "decode" \/ (pc \in {"finally", "done"} /\ exit = 0))

Raised == script = "victron" /\ (pc = "raise" \/ (pc \in {"finally", "done"} /\ exit = 1))

\* C6: with only transient failures, read_holding makes at most retries + 1
\* reads and none after a success; when it returns, the k failed reads are
\* followed by the successful read k + 1 <= retries + 1, whose registers it
\* returns; when it raises, exactly retries + 1 reads were made and failed.
C6_BoundedRetry ==
  (script = "victron" /\ \A i \in DOMAIN Reads : Reads[i].res # "error") =>
    /\ Len(Reads) <= args.retries + 1
    /\ \A i \in 1..(Len(Reads) - 1) : Reads[i].res = "exception"
    /\ Returned => /\ Reads[Len(Reads)].res = "ok"
                   /\ regs = Reads[Len(Reads)].data
                   /\ Len(Reads) - 1 <= args.retries
    /\ Raised => /\ Len(Reads) = args.retries + 1
                 /\ Reads[Len(Reads)].res = "exception"
                 /\ last_exc = "exception"
    /\ pc = "done" /\ trace[1].res = "ok" => Returned \/ Raised

\* C6 witness: retries = 2, two transient failures, success on the third read
C6_ThirdAttemptSucceeds ==
  /\ script = "victron" /\ pc = "done" /\ exit = 0 /\ args.retries = 2
  /\ Len(Reads) = 3
  /\ Reads[1].res = "exception" /\ Reads[2].res = "exception" /\ Reads[3].res = "ok"

\* C7: every sleep of read_holding follows a failed read and is followed by
\* the next read; no sleep precedes the first read, follows a successful read
\* or follows the last failed read, so n reads come with n - 1 sleeps.
C7_DelayOnlyBetweenAttempts ==
  script = "victron" =>
    /\ \A i \in DOMAIN trace :
         IsSleep(trace[i]) =>
           /\ i > 1 /\ IsRead(trace[i - 1]) /\ trace[i - 1].res # "ok"
           /\ i < Len(trace) => IsRead(trace[i + 1])
           /\ i = Len(trace) => pc = "attempt"
    /\ \A i \in DOMAIN trace :
         (IsRead(trace[i]) /\ i < Len(trace)) =>
           IF IsRead(trace[i + 1]) THEN FALSE
           ELSE IsSleep(trace[i + 1]) <=> (i + 1 < Len(trace) \/ pc = "attempt")
    /\ (Returned \/ Raised) => Len(Sleeps) = Len(Reads) - 1

\* C7 witness: a finished run of three reads and two sleeps
C7_ThreeReadsTwoSleeps ==
  /\ script = "victron" /\ pc = "done"
  /\ Len(Reads) = 3 /\ Len(Sleeps) = 2

\* C8: a run in which connect was attempted ends with the client closed.
C8_ClosedOnEveryExit ==
  (pc = "done" /\ \E i \in DOMAIN trace : trace[i].op = "connect") =>
    trace[Len(trace)].op = "close"

\* the number of 16-bit words one value of the requested type takes
WordsPerValue ==
  IF script = "generic" THEN (IF args.bit_length = 32 THEN 2 ELSE 1)
  ELSE (CASE args.dtype \in {"u16", "s16"} -> 1
          [] args.dtype \in {"u32", "s32"} -> 2
          [] OTHER -> 4)

Typed == script = "generic" \/ (script = "victron" /\ args.dtype # "x8")

\* C9: every read asks for count times the words of the requested type, and
\* no decode is attempted on fewer registers than the type takes.
C9_RawCountIsValuesTimesWords ==
  Typed =>
    /\ \A i \in DOMAIN trace :
         IsRead(trace[i]) => trace[i].count = args.count * WordsPerValue
    /\ Returned => Len(regs) >= WordsPerValue

\* C9 as amended: the generic reader asks for count times the words of its
\* bit length; soc_victron_0.2 asks for count registers whatever the dtype,
\* and a decode of fewer registers than the dtype takes gives no value.
C9_RawCountPerScript ==
  /\ script = "generic" =>
       \A i \in DOMAIN trace :
         IsRead(trace[i]) => trace[i].count = args.count * WordsPerValue
  /\ script = "victron" =>
       /\ \A i \in DOMAIN trace : IsRead(trace[i]) => trace[i].count = args.count
       /\ (pc \in {"finally", "done"} /\ exit = 0 /\ args.dtype # "x8"
           /\ Len(regs) < WordsPerValue) => value.kind = "none"

\* C9 witness: one 32-bit value has been read as two registers
C9_OneValueTwoRegisters ==
  /\ script = "generic" /\ args.bit_length = 32 /\ args.count = 1
  /\ Len(Reads) = 1 /\ Reads[1].count = 2 /\ Reads[1].res = "ok"

\* C10: every result the generic reader prints is the decoded value times
\* the scale: word * scale for 16-bit reads, ((high << 16) | low) * scale
\* for 32-bit reads.
C10_EveryResultScaled ==
  (script = "generic" /\ pc \in {"finally", "done"} /\ exit = 0) =>
    \A j \in DOMAIN out :
      /\ out[j].kind = "scaled" => out[j].x = regs[out[j].i + 1] * args.scale
      /\ out[j].kind = "value32" =>
           out[j].x = (regs[out[j].i + 1] * 65536 + regs[out[j].i + 2]) * args.scale

IsScaled(l) == l.kind = "scaled"

\* C11: a 16-bit read of n >= 2 values whose read returned n words ends in
\* the success outcome and reports exactly the n values word[i] * scale, in
\* the order of the words.
C11_MultiValueReadSucceeds ==
  (/\ script = "generic" /\ args.bit_length = 16 /\ args.count >= 2
   /\ pc \in {"finally", "done"}
   /\ Len(Reads) = 1 /\ Reads[1].res = "ok" /\ Len(regs) = args.count) =>
    /\ exit = 0
    /\ SelectSeq(out, IsScaled)
         = [i \in 1..args.count |-> Line("scaled", i - 1, regs[i] * args.scale)]

\* C12: convert_32bit_value(high, low) is the number decode_registers gives
\* for [high, low] as u32 with byteorder big and wordorder big; for high = 1
\* and low = 2 both are 0x00010002.
C12_Combine32IsBigBigU32 ==
  (/\ script = "codec" /\ pc = "done" /\ Len(regs) = 2
   /\ args.dtype = "u32" /\ args.byteorder = "big" /\ args.wordorder = "big") =>
    /\ value.kind = "value"
    /\ NumberOf(value.v) = out[1].x
    /\ regs = <<1, 2>> => out[1].x = 65538

\* C12 witness: both decoders have run on high = 1, low = 2
C12_OneTwoCombined ==
  /\ script = "codec" /\ pc = "done" /\ regs = <<1, 2>>
  /\ args.dtype = "u32" /\ args.byteorder = "big" /\ args.wordorder = "big"
  /\ value.kind = "value" /\ out[1].x = 65538

\* C13: a run of the reader with a count below 1 issues no connect and no
\* read and ends in the error exit, whatever the other arguments.
C13_CountBelowOneRejected ==
  (script \in GenericScripts /\ args.count < 1) =>
    /\ trace = <<>>
    /\ pc \in {"start", "validate", "done"}
    /\ pc = "done" => exit = 1 /\ err \in {"parse", "count"}
    /\ (pc = "done" /\ RangesOf(args.register) # {}) => err = "count"

\* C13 witness: count 0 in 32-bit mode has been rejected
C13_ZeroCountRejected ==
  /\ script = "generic" /\ pc = "done" /\ args.count = 0 /\ args.bit_length = 32
  /\ err = "count" /\ exit = 1 /\ trace = <<>>

\* the dtype is one decode_registers knows
KnownType == args.dtype \in {"u16", "s16", "u32", "s32", "u64", "s64"}

\* the number of registers the dtype takes: 1, 2 or 4
RequiredWords ==
  CASE args.dtype \in {"u16", "s16"} -> 1
    [] args.dtype \in {"u32", "s32"} -> 2
    [] OTHER -> 4

Decoded == script = "codec" /\ pc # "start"

\* C14: decode_registers raises for every register list shorter than the
\* dtype takes, the empty list included, and returns nothing for it.
C14_ShortInputRaises ==
  (Decoded /\ KnownType /\ Len(regs) < RequiredWords) => value.kind = "error"

FirstWords == SubSeq(regs, 1, RequiredWords)

LastWords == SubSeq(regs, Len(regs) - RequiredWords + 1, Len(regs))

\* C15: with at least as many registers as the dtype takes, the decoded
\* value is that of the first RequiredWords registers under wordorder big
\* and that of the last RequiredWords registers under wordorder little, the
\* other registers having no influence; a 16-bit decode of [a, b, c] gives a
\* under big and c under little.
C15_ExtraWordsAndWordOrder ==
  (Decoded /\ KnownType /\ Len(regs) >= RequiredWords) =>
    /\ value.kind = "value"
    /\ Len(value.v.msb) = 2 * RequiredWords
    /\ args.wordorder = "big" =>
         value = decode_registers(FirstWords, args.dtype, args.byteorder, "big")
    /\ args.wordorder = "little" =>
         value = decode_registers(LastWords, args.dtype, args.byteorder, "little")
    /\ RequiredWords = 1 =>
         BigEndianValue(value.v.msb)
           = (IF args.wordorder = "big" THEN regs[1] ELSE regs[Len(regs)])

\* C15 witness: [1, 2, 258] decoded as u16 under wordorder little gives 258
C15_LastWordUnderLittle ==
  /\ Decoded /\ regs = <<1, 2, 258>> /\ args.dtype = "u16"
  /\ args.wordorder = "little" /\ args.byteorder = "big"
  /\ value.kind = "value" /\ NumberOf(value.v) = 258

IsTransport(e) == e.op # "sleep"

\* the connects, reads and closes of the run so far, in order
Calls == SelectSeq(trace, IsTransport)

\* C16: in every script the transport calls of a run are one connect, then
\* reads, then at most one close: every read comes after a connect that
\* succeeded and before the close, and nothing follows the close.
C16_ReadsOnlyWhileOpen ==
  \A i \in DOMAIN Calls :
    /\ Calls[i].op = "connect" <=> i = 1
    /\ Calls[i].op = "read" => Calls[1] = Connect(TRUE)
    /\ Calls[i].op = "close" => i = Len(Calls)

\* C16 witness: a finished run of connect, three reads and close
C16_ConnectReadsClose ==
  /\ script = "solis" /\ pc = "done" /\ Len(Calls) = 5
  /\ Calls[1] = Connect(TRUE) /\ Calls[5] = Close
  /\ \A i \in 2..4 : Calls[i].op = "read"

====
